---------------------------- MODULE Spec2Model ----------------------------
(***************************************************************************)
(* A model of the barcode-scanner crate (src/src/lib.rs): the blocking     *)
(* BarcodeScanner::read loop, its per-batch modifier tracking, the line    *)
(* buffer and the key_to_str key mapper.                                   *)
(*                                                                         *)
(* A character is a one-character string, a String a sequence of           *)
(* characters, and an Option<T> a sequence of length 0 (None) or 1 (Some). *)
(***************************************************************************)
EXTENDS Integers, Sequences, FiniteSets, TLC

(***************************************************************************)
(* Bounds of the model.                                                    *)
(***************************************************************************)
\* Longest event stream drawn from the general alphabets.
MaxEvents == 4

\* Most failed fetches of the worker of into_async_stream.
MaxErrors == 2

(***************************************************************************)
(* Input events: evdev::InputEvent reduced to event_type(), code(), value().*)
(***************************************************************************)
Press(k) == [type |-> "KEY", code |-> k, value |-> 1]

Release(k) == [type |-> "KEY", code |-> k, value |-> 0]

Repeat(k) == [type |-> "KEY", code |-> k, value |-> 2]

\* An event of another type whose code equals the code of key k (evdev::Key is
\* built from the bare code) and whose value is 1.
Other(k) == [type |-> "MSC", code |-> k, value |-> 1]

\* The character U+0060 (grave accent), which a TLA+ string cannot hold.
GraveAccent == "<grave>"

(***************************************************************************)
(* key_to_str: the [unshifted, shifted] pair of a key, None for the rest.  *)
(***************************************************************************)
key_chars(key) ==
  CASE key = "KEY_1" -> << <<"1", "!">> >>
    [] key = "KEY_2" -> << <<"2", "@">> >>
    [] key = "KEY_3" -> << <<"3", "#">> >>
    [] key = "KEY_4" -> << <<"4", "$">> >>
    [] key = "KEY_5" -> << <<"5", "%">> >>
    [] key = "KEY_6" -> << <<"6", "^">> >>
    [] key = "KEY_7" -> << <<"7", "&">> >>
    [] key = "KEY_8" -> << <<"8", "*">> >>
    [] key = "KEY_9" -> << <<"9", "(">> >>
    [] key = "KEY_0" -> << <<"0", ")">> >>
    [] key = "KEY_A" -> << <<"a", "A">> >>
    [] key = "KEY_B" -> << <<"b", "B">> >>
    [] key = "KEY_C" -> << <<"c", "C">> >>
    [] key = "KEY_D" -> << <<"d", "D">> >>
    [] key = "KEY_E" -> << <<"e", "E">> >>
    [] key = "KEY_F" -> << <<"f", "F">> >>
    [] key = "KEY_G" -> << <<"g", "G">> >>
    [] key = "KEY_H" -> << <<"h", "H">> >>
    [] key = "KEY_I" -> << <<"i", "I">> >>
    [] key = "KEY_J" -> << <<"j", "J">> >>
    [] key = "KEY_K" -> << <<"k", "K">> >>
    [] key = "KEY_L" -> << <<"l", "L">> >>
    [] key = "KEY_M" -> << <<"m", "M">> >>
    [] key = "KEY_N" -> << <<"n", "N">> >>
    [] key = "KEY_O" -> << <<"o", "O">> >>
    [] key = "KEY_P" -> << <<"p", "P">> >>
    [] key = "KEY_Q" -> << <<"q", "Q">> >>
    [] key = "KEY_R" -> << <<"r", "R">> >>
    [] key = "KEY_S" -> << <<"s", "S">> >>
    [] key = "KEY_T" -> << <<"t", "T">> >>
    [] key = "KEY_U" -> << <<"u", "U">> >>
    [] key = "KEY_V" -> << <<"v", "V">> >>
    [] key = "KEY_W" -> << <<"w", "W">> >>
    [] key = "KEY_X" -> << <<"x", "X">> >>
    [] key = "KEY_Y" -> << <<"y", "Y">> >>
    [] key = "KEY_Z" -> << <<"z", "Z">> >>
    [] key = "KEY_SPACE" -> << <<" ", " ">> >>
    [] key = "KEY_TAB" -> << <<"\t", "\t">> >>
    [] key = "KEY_APOSTROPHE" -> << <<"'", "\"">> >>
    [] key = "KEY_EQUAL" -> << <<"=", "+">> >>
    [] key = "KEY_COMMA" -> << <<",", "<">> >>
    [] key = "KEY_MINUS" -> << <<"-", "_">> >>
    [] key = "KEY_DOT" -> << <<".", ">">> >>
    [] key = "KEY_SLASH" -> << <<"/", "?">> >>
    [] key = "KEY_BACKSLASH" -> << <<"\\", "|">> >>
    [] key = "KEY_SEMICOLON" -> << <<";", ":">> >>
    [] key = "KEY_LEFTBRACE" -> << <<"[", "{">> >>
    [] key = "KEY_RIGHTBRACE" -> << <<"]", "}">> >>
    [] key = "KEY_GRAVE" -> << <<GraveAccent, "~">> >>
    [] key = "KEY_KPENTER" -> << <<"\n", "\n">> >>
    [] key = "KEY_ENTER" -> << <<"\n", "\n">> >>
    [] OTHER -> << >>

\* key_to_str with ['\n', '\r'] in the arms of the two enter keys.
key_to_str_enter_pair(key, capital) ==
  LET char == key_chars(key)
  IN  IF char = << >> THEN << >>
      ELSE IF capital
             THEN (IF key \in {"KEY_ENTER", "KEY_KPENTER"}
                     THEN << "\r" >> ELSE << char[1][2] >>)
             ELSE << char[1][1] >>

\* key_to_str with the pair indexed the other way round.
key_to_str_swapped(key, capital) ==
  LET char == key_chars(key)
  IN  IF char = << >> THEN << >>
      ELSE IF capital THEN << char[1][1] >> ELSE << char[1][2] >>

\* key_to_str with '?' in the place of None.
key_to_str_fallback(key, capital) ==
  LET char == key_chars(key)
  IN  IF char = << >> THEN << "?" >>
      ELSE IF capital THEN << char[1][2] >> ELSE << char[1][1] >>

\* key_to_str without the arm of KEY_ENTER.
key_to_str_no_enter(key, capital) ==
  LET char == key_chars(key)
  IN  IF char = << >> \/ key = "KEY_ENTER" THEN << >>
      ELSE IF capital THEN << char[1][2] >> ELSE << char[1][1] >>

key_to_str(key, capital) ==
  LET char == key_chars(key)
  IN  IF char = << >> THEN << >>
      ELSE IF capital THEN << char[1][2] >> ELSE << char[1][1] >>


(***************************************************************************)
(* String helpers used by read(): find, drain, pop.                        *)
(***************************************************************************)
Newline == "\n"

HasNewline(s) == \E i \in 1..Len(s) : s[i] = Newline

\* str::rfind('\n') in the place of find: the last newline.
rfind(s) ==
  IF HasNewline(s)
    THEN << (CHOOSE i \in 1..Len(s) :
               s[i] = Newline /\ \A j \in (i + 1)..Len(s) : s[j] # Newline) - 1 >>
    ELSE << >>

\* str::find('\n'): Some(byte index, from 0) of the first newline, else None.
find(s) ==
  IF HasNewline(s)
    THEN << (CHOOSE i \in 1..Len(s) :
               s[i] = Newline /\ \A j \in 1..(i - 1) : s[j] # Newline) - 1 >>
    ELSE << >>

\* drain(..n - 1) in the place of drain(..n).
drain_one_less(s, n) ==
  [taken |-> SubSeq(s, 1, n - 1), rest |-> SubSeq(s, n, Len(s))]

\* String::drain(..n): the first n characters are taken out of the string,
\* the rest stays.
drain(s, n) == [taken |-> SubSeq(s, 1, n), rest |-> SubSeq(s, n + 1, Len(s))]

\* The pop left out.
pop_nothing(s) == s

\* String::pop: the string without its last character.
pop(s) == SubSeq(s, 1, Len(s) - 1)

IsPrefix(p, s) == Len(p) <= Len(s) /\ SubSeq(s, 1, Len(p)) = p

(***************************************************************************)
(* The body of the for loop of read() for one event: the three locals that *)
(* track the modifier keys, and what is pushed on the buffer.              *)
(***************************************************************************)
\* One arm of the match: the local follows the event if it is on `key`.
track(event, key, current) ==
  IF event.code = key THEN event.value = 1 ELSE current

\* The modifier locals after `event`; m = [left, right, caps].
modifiers_after(event, m) ==
  IF event.type = "KEY"
    THEN [left  |-> track(event, "KEY_LEFTSHIFT", m.left),
          right |-> track(event, "KEY_RIGHTSHIFT", m.right),
          caps  |-> track(event, "KEY_CAPSLOCK", m.caps)]
    ELSE m

\* The flag handed to key_to_str.
effective_capital(m) == m.left \/ m.right \/ m.caps

\* pushed_by with `value != 0` in the place of `value == 1`.
pushed_by_unless_released(event, m) ==
  IF event.type = "KEY" /\ event.value # 0
    THEN key_to_str(event.code, effective_capital(modifiers_after(event, m)))
    ELSE << >>

\* What `event` pushes on the buffer (None: nothing), the locals being m
\* before it.
pushed_by(event, m) ==
  IF event.type = "KEY" /\ event.value = 1
    THEN key_to_str(event.code, effective_capital(modifiers_after(event, m)))
    ELSE << >>

\* The locals as declared at the top of each loop iteration.
NoModifiers == [left |-> FALSE, right |-> FALSE, caps |-> FALSE]

\* The characters one batch pushes, all its events run through the for loop.
RECURSIVE decode_batch(_, _)
decode_batch(evs, m) ==
  IF evs = << >> THEN << >>
  ELSE pushed_by(Head(evs), m)
         \o decode_batch(Tail(evs), modifiers_after(Head(evs), m))

(***************************************************************************)
(* Result<String, Error> of read().                                        *)
(***************************************************************************)
NoResult == [kind |-> "none", val |-> << >>]

Ok(barcode) == [kind |-> "ok", val |-> barcode]

Err == [kind |-> "err", val |-> << >>]

(***************************************************************************)
(* The event streams the device may deliver.                               *)
(***************************************************************************)
SeqsUpTo(S, n) == UNION {[1..k -> S] : k \in 0..n}

\* Shift held and released around a letter, the terminator, and events that
\* look like a terminator press but are none.
ShiftAlphabet ==
  {Press("KEY_LEFTSHIFT"), Release("KEY_LEFTSHIFT"), Press("KEY_A"),
   Press("KEY_ENTER"), Repeat("KEY_ENTER"), Other("KEY_ENTER")}

\* Named scans.
ScanHi == <<Press("KEY_H"), Press("KEY_I"), Press("KEY_ENTER")>>

ScanAb ==
  <<Press("KEY_LEFTSHIFT"), Press("KEY_A"), Release("KEY_LEFTSHIFT"),
    Press("KEY_B"), Press("KEY_ENTER")>>

ScanXY ==
  <<Press("KEY_X"), Press("KEY_ENTER"), Press("KEY_Y"), Press("KEY_ENTER")>>

\* The other modifiers, the other terminator, a digit, a key without a
\* mapping and a released terminator.
CapsAlphabet ==
  {Press("KEY_RIGHTSHIFT"), Press("KEY_CAPSLOCK"), Press("KEY_1"),
   Press("KEY_KPENTER"), Press("KEY_ESC"), Release("KEY_ENTER")}

\* The right shift key held over one of two digits.
ScanShift1 ==
  <<Press("KEY_RIGHTSHIFT"), Press("KEY_1"), Release("KEY_RIGHTSHIFT"),
    Press("KEY_1"), Press("KEY_KPENTER")>>

Streams ==
  SeqsUpTo(ShiftAlphabet, MaxEvents) \cup SeqsUpTo(CapsAlphabet, MaxEvents)
    \cup {ScanHi, ScanAb, ScanXY, ScanShift1}

(***************************************************************************)
(* State.                                                                  *)
(***************************************************************************)
VARIABLES
  device,     \* events the device has still to deliver, in arrival order
  pc,         \* where read() is: "idle" (not called), "fetch" (entered, at
              \* fetch_events), "again" (looped back to fetch_events),
              \* "events" (in the for loop over the batch)
  events,     \* the rest of the batch fetch_events returned
  mods,       \* left_shift_pressed, right_shift_pressed, capslock_on
  buffer,     \* BarcodeScanner.buffer
  result,     \* what the last read() returned
  consumed,   \* history: the batches fetched so far, each with the events
              \* the for loop has run on, in order
  returned,   \* history: every barcode read() returned, in order
  errBuffer,  \* history: the buffer at the last failed fetch (Some), kept
              \* until the call after the next returned barcode
  opened,     \* what open / open_by_physical_path returned: "none" (not
              \* called yet), "scanner", "no_device" (Ok(None)), "error"
  grabbed,    \* whether device.grab() has succeeded on the device
  worker,     \* the task of into_async_stream: "none" (not spawned),
              \* "running", "stopped" (left its loop)
  channel,    \* the items sent on the unbounded channel and not received yet
  received,   \* history: the items the receiver has taken, in order
  rx,         \* the receiver: "none", "alive", "dropped"
  completed   \* history: the results of the worker's read() calls, in the
              \* order the calls returned

\* The state of opening and of the channel, which read() leaves alone.
apart == <<opened, grabbed, worker, channel, received, rx>>

\* With the history of the worker's results, which the steps of read() that
\* do not return leave alone too.
others == <<opened, grabbed, worker, channel, received, rx, completed>>

vars ==
  <<device, pc, events, mods, buffer, result, consumed, returned, errBuffer,
    opened, grabbed, worker, channel, received, rx, completed>>

\* The history of the worker's results when read() returns r.
Completes(r) ==
  completed' = IF worker = "running" THEN Append(completed, r) ELSE completed

\* The error items among the items s.
ErrItems(s) == Cardinality({i \in 1..Len(s) : s[i].kind = "err"})

\* A scanner as open() returns it, read() not yet called.
Constructed ==
  /\ pc = "idle"
  /\ events = << >>
  /\ mods = NoModifiers
  /\ buffer = << >>
  /\ result = NoResult
  /\ consumed = << >>
  /\ returned = << >>
  /\ errBuffer = << >>
  /\ opened = "scanner"
  /\ grabbed = TRUE

\* into_async_stream has not been called.
NoStream ==
  /\ worker = "none"
  /\ channel = << >>
  /\ received = << >>
  /\ rx = "none"
  /\ completed = << >>

Init ==
  /\ device \in Streams
  /\ pc = "idle"
  /\ events = << >>
  /\ mods = NoModifiers
  /\ buffer = << >>
  /\ result = NoResult
  /\ consumed = << >>
  /\ returned = << >>
  /\ errBuffer = << >>
  /\ opened = "scanner"
  /\ grabbed = TRUE
  /\ NoStream

(***************************************************************************)
(* read().                                                                 *)
(***************************************************************************)
\* A read() that anyone holding the scanner could call at any time, the
\* worker's pending result notwithstanding.
CallByAnyParty ==
  /\ opened = "scanner"
  /\ pc = "idle"
  /\ pc' = "fetch"
  /\ result' = NoResult
  /\ errBuffer' = IF result.kind = "ok" THEN << >> ELSE errBuffer
  /\ UNCHANGED <<device, events, mods, buffer, consumed, returned>>
  /\ UNCHANGED others

\* read() is called: by the owner of the scanner, or, once the scanner has
\* been moved into the worker of into_async_stream, by the worker's loop
\* after it has sent the result of the read() before.
Call ==
  /\ opened = "scanner"
  /\ pc = "idle"
  /\ worker = "none" \/ (worker = "running" /\ result = NoResult)
  /\ pc' = "fetch"
  /\ result' = NoResult
  /\ errBuffer' = IF result.kind = "ok" THEN << >> ELSE errBuffer
  /\ UNCHANGED <<device, events, mods, buffer, consumed, returned>>
  /\ UNCHANGED others

\* fetch_events() returns the next batch: the events that have arrived, at
\* least one. The modifier locals are declared anew.
FetchOk ==
  /\ pc \in {"fetch", "again"}
  /\ \E n \in 1..Len(device) :
       /\ events' = SubSeq(device, 1, n)
       /\ device' = SubSeq(device, n + 1, Len(device))
  /\ mods' = NoModifiers
  /\ pc' = "events"
  /\ consumed' = Append(consumed, << >>)
  /\ UNCHANGED <<buffer, result, returned, errBuffer>>
  /\ UNCHANGED others

\* FetchErr that also clears the buffer.
FetchErrClearsBuffer ==
  /\ pc \in {"fetch", "again"}
  /\ worker = "none" \/ ErrItems(completed) < MaxErrors
  /\ result' = Err
  /\ pc' = "idle"
  /\ errBuffer' = <<buffer>>
  /\ buffer' = << >>
  /\ Completes(Err)
  /\ UNCHANGED <<device, events, mods, consumed, returned>>
  /\ UNCHANGED apart

\* fetch_events() fails: `?` returns the error from read().
FetchErr ==
  /\ pc \in {"fetch", "again"}
  /\ worker = "none" \/ ErrItems(completed) < MaxErrors
  /\ result' = Err
  /\ pc' = "idle"
  /\ errBuffer' = <<buffer>>
  /\ Completes(Err)
  /\ UNCHANGED <<device, events, mods, buffer, consumed, returned>>
  /\ UNCHANGED apart

\* One iteration of the for loop.
ProcessEvent ==
  /\ pc = "events"
  /\ events # << >>
  /\ LET event == Head(events)
     IN  /\ mods' = modifiers_after(event, mods)
         /\ buffer' = buffer \o pushed_by(event, mods)
         /\ consumed' = [consumed EXCEPT ![Len(consumed)] = Append(@, event)]
  /\ events' = Tail(events)
  /\ UNCHANGED <<device, pc, result, returned, errBuffer>>
  /\ UNCHANGED others

\* Scan that returns the whole buffer when it holds no newline.
ScanReturnsEveryBatch ==
  /\ pc = "events"
  /\ events = << >>
  /\ LET index == find(buffer)
         n == IF index # << >> THEN index[1] + 1 ELSE Len(buffer)
         barcode == IF index # << >> THEN pop(drain(buffer, n).taken)
                    ELSE buffer
     IN  /\ buffer' = drain(buffer, n).rest
         /\ result' = Ok(barcode)
         /\ returned' = Append(returned, barcode)
         /\ pc' = "idle"
         /\ Completes(Ok(barcode))
  /\ UNCHANGED <<device, events, mods, consumed, errBuffer>>
  /\ UNCHANGED apart

\* Scan that drops an empty barcode and goes on waiting.
ScanSkipsEmpty ==
  /\ pc = "events"
  /\ events = << >>
  /\ LET index == find(buffer)
     IN  IF index # << >> /\ index[1] > 0
           THEN LET barcode == pop(drain(buffer, index[1] + 1).taken)
                IN  /\ buffer' = drain(buffer, index[1] + 1).rest
                    /\ result' = Ok(barcode)
                    /\ returned' = Append(returned, barcode)
                    /\ pc' = "idle"
                    /\ Completes(Ok(barcode))
           ELSE /\ buffer' = IF index # << >> THEN drain(buffer, 1).rest
                             ELSE buffer
                /\ pc' = "again"
                /\ UNCHANGED <<result, returned, completed>>
  /\ UNCHANGED <<device, events, mods, consumed, errBuffer>>
  /\ UNCHANGED apart

\* After the for loop: return the text before the first newline, or loop.
Scan ==
  /\ pc = "events"
  /\ events = << >>
  /\ LET index == find(buffer)
     IN  IF index # << >>
           THEN LET barcode == pop(drain(buffer, index[1] + 1).taken)
                IN  /\ buffer' = drain(buffer, index[1] + 1).rest
                    /\ result' = Ok(barcode)
                    /\ returned' = Append(returned, barcode)
                    /\ pc' = "idle"
                    /\ Completes(Ok(barcode))
           ELSE /\ pc' = "again"
                /\ UNCHANGED <<buffer, result, returned, completed>>
  /\ UNCHANGED <<device, events, mods, consumed, errBuffer>>
  /\ UNCHANGED apart

Next == Call \/ FetchOk \/ FetchErr \/ ProcessEvent \/ Scan

Spec == Init /\ [][Next]_vars

(***************************************************************************)
(* Histories derived from the state.                                       *)
(***************************************************************************)
RECURSIVE Flatten(_)
Flatten(ss) == IF ss = << >> THEN << >> ELSE Head(ss) \o Flatten(Tail(ss))

\* Every character pushed on the buffer so far: each batch decoded with the
\* modifier locals it started with.
RECURSIVE PushedBy(_)
PushedBy(batches) ==
  IF batches = << >> THEN << >>
  ELSE decode_batch(Head(batches), NoModifiers) \o PushedBy(Tail(batches))

\* The barcodes returned so far, each followed by one newline.
RECURSIVE Lines(_)
Lines(barcodes) ==
  IF barcodes = << >> THEN << >>
  ELSE Head(barcodes) \o <<Newline>> \o Lines(Tail(barcodes))

NewlineCount(s) == Cardinality({i \in 1..Len(s) : s[i] = Newline})

IsEnterPress(event) ==
  /\ event.type = "KEY"
  /\ event.value = 1
  /\ event.code \in {"KEY_ENTER", "KEY_KPENTER"}

(***************************************************************************)
(* C1. Every read() that returns a barcode returns the buffer's text       *)
(* before the first newline; that text and the newline leave the buffer,   *)
(* everything after the newline stays, in order, and one barcode is        *)
(* returned.                                                               *)
(***************************************************************************)
C1_ReturnsTextBeforeFirstNewline ==
  [][(pc = "events" /\ pc' = "idle") =>
       \E i \in 1..Len(buffer) :
         /\ buffer[i] = Newline
         /\ \A j \in 1..(i - 1) : buffer[j] # Newline
         /\ result' = Ok(SubSeq(buffer, 1, i - 1))
         /\ buffer' = SubSeq(buffer, i + 1, Len(buffer))
         /\ returned' = Append(returned, SubSeq(buffer, 1, i - 1))]_vars

\* read() has returned a barcode and left text that followed its terminator.
C1_Witness ==
  /\ pc = "idle"
  /\ result.kind = "ok"
  /\ result.val # << >>
  /\ buffer # << >>

(***************************************************************************)
(* C2. A read() that starts with a complete barcode (a newline) in the     *)
(* buffer returns it without the device delivering a further batch (the    *)
(* step that follows, unless it is a failing fetch, is the return of that  *)
(* barcode, and takes nothing from the device).                            *)
(***************************************************************************)
C2_BufferedBarcodeNeedsNoBatch ==
  [][(pc = "fetch" /\ HasNewline(buffer) /\ result'.kind # "err") =>
       /\ pc' = "idle"
       /\ result'.kind = "ok"
       /\ device' = device]_vars

(***************************************************************************)
(* C3. The characters decoded from the events consumed so far do not       *)
(* depend on how the events were split into batches: they are what one     *)
(* batch holding all the events decodes to (modifier state is never reset).*)
(***************************************************************************)
C3_DecodingIgnoresBatchSplit ==
  PushedBy(consumed) = decode_batch(Flatten(consumed), NoModifiers)

(***************************************************************************)
(* C4. For press(shift), press(a), release(shift), press(b), press(enter)  *)
(* read() returns "Ab", and for press(h), press(i), press(enter) it        *)
(* returns "hi".                                                           *)
(***************************************************************************)
C4_ShiftAppliesBetweenPressAndRelease ==
  /\ (Flatten(consumed) = ScanAb /\ returned # << >>)
       => returned[1] = <<"A", "b">>
  /\ (Flatten(consumed) = ScanHi /\ returned # << >>)
       => returned[1] = <<"h", "i">>

(***************************************************************************)
(* C5. A failed fetch makes read() return the error at once, with no       *)
(* further fetch, and leaves the buffer as it was; the text buffered then  *)
(* is at the start of what the next successful read() returns and leaves.  *)
(***************************************************************************)
C5_FetchErrorKeepsBuffer ==
  [][/\ (result'.kind = "err" /\ result.kind # "err") =>
          /\ pc \in {"fetch", "again"}
          /\ pc' = "idle"
          /\ buffer' = buffer
          /\ device' = device
          /\ consumed' = consumed
          /\ returned' = returned
     /\ (result'.kind = "ok" /\ result.kind # "ok" /\ errBuffer # << >>) =>
          /\ IsPrefix(errBuffer[1], result'.val \o <<Newline>> \o buffer')
          /\ ~HasNewline(errBuffer[1]) => IsPrefix(errBuffer[1], result'.val)]_vars

\* A fetch failed with text buffered, and a later read() returned that text.
C5_Witness ==
  /\ pc = "idle"
  /\ result.kind = "ok"
  /\ errBuffer # << >>
  /\ errBuffer[1] # << >>
  /\ ~HasNewline(errBuffer[1])

(***************************************************************************)
(* C6. The barcodes returned so far, each followed by a newline, followed  *)
(* by the buffer, are the characters mapped from the events consumed so    *)
(* far, in arrival order.                                                  *)
(***************************************************************************)
C6_NothingLostOrReordered ==
  Lines(returned) \o buffer = PushedBy(consumed)

\* Two barcodes have been returned and text is left in the buffer.
C6_Witness ==
  /\ Len(returned) >= 2
  /\ returned[1] # << >>
  /\ buffer # << >>

(***************************************************************************)
(* C7 as stated. The buffer holds no newline where read() waits for the    *)
(* next batch or has returned.                                             *)
(***************************************************************************)
C7_NoNewlineBetweenCalls ==
  pc \in {"idle", "fetch", "again"} => ~HasNewline(buffer)

(***************************************************************************)
(* C7 as amended. The buffer holds no newline where read() loops back to   *)
(* wait for a further batch within one call; where read() has returned or  *)
(* waits, the newlines in the buffer are those of the terminators consumed *)
(* whose barcodes have not been returned yet.                              *)
(***************************************************************************)
C7_NewlinesOnlyOfUnreturnedBarcodes ==
  /\ pc = "again" => ~HasNewline(buffer)
  /\ pc \in {"idle", "fetch", "again"} =>
       NewlineCount(buffer) =
         NewlineCount(PushedBy(consumed)) - Len(returned)

\* read() has returned while a later terminator of the same batch is buffered.
C7_Witness ==
  /\ pc = "idle"
  /\ result.kind = "ok"
  /\ HasNewline(buffer)

(***************************************************************************)
(* C8. read() returns a barcode only from the scan after a batch, and only *)
(* if the buffer then holds a newline; if it holds none, read() returns    *)
(* nothing and goes back to fetch a further batch.                         *)
(***************************************************************************)
C8_NoTerminatorNoResult ==
  [][/\ (result'.kind = "ok" /\ result.kind # "ok") =>
          (pc = "events" /\ events = << >> /\ HasNewline(buffer))
     /\ (pc = "events" /\ events = << >> /\ ~HasNewline(buffer)) =>
          (pc' = "again" /\ result' = NoResult /\ returned' = returned
             /\ buffer' = buffer)]_vars

\* A batch of modifier presses only has been processed and read() is back at
\* fetch_events with no result.
C8_Witness ==
  /\ pc = "again"
  /\ result = NoResult
  /\ Flatten(consumed) # << >>
  /\ \A i \in 1..Len(Flatten(consumed)) :
       /\ Flatten(consumed)[i].value = 1
       /\ Flatten(consumed)[i].code
            \in {"KEY_LEFTSHIFT", "KEY_RIGHTSHIFT", "KEY_CAPSLOCK"}

(***************************************************************************)
(* C9. If no fetch fails and the device delivers what it holds, a pending  *)
(* read() returns a barcode once a press of enter or keypad enter is among *)
(* the events fetched or still to be delivered.                            *)
(***************************************************************************)
\* read() where every fetch succeeds.
NextNoError == Call \/ FetchOk \/ ProcessEvent \/ Scan

\* Both terminators, a shifted letter, and events that look like a
\* terminator press but are none.
EnterAlphabet ==
  {Press("KEY_ENTER"), Press("KEY_KPENTER"), Repeat("KEY_ENTER"),
   Other("KEY_ENTER"), Press("KEY_LEFTSHIFT"), Press("KEY_A")}

LiveStreams == SeqsUpTo(EnterAlphabet, MaxEvents) \cup {ScanHi, ScanAb, ScanXY}

LiveInit ==
  /\ device \in LiveStreams
  /\ pc = "idle"
  /\ events = << >>
  /\ mods = NoModifiers
  /\ buffer = << >>
  /\ result = NoResult
  /\ consumed = << >>
  /\ returned = << >>
  /\ errBuffer = << >>
  /\ opened = "scanner"
  /\ grabbed = TRUE
  /\ NoStream

\* The device delivers the events it holds, and read() runs on.
LiveSpec ==
  /\ LiveInit
  /\ [][NextNoError]_vars
  /\ WF_vars(FetchOk)
  /\ WF_vars(ProcessEvent)
  /\ WF_vars(Scan)

EnterPending ==
  \E i \in 1..Len(events \o device) : IsEnterPress((events \o device)[i])

C9_PendingReadReturns ==
  (pc # "idle" /\ EnterPending) ~> (pc = "idle" /\ result.kind = "ok")

\* read() has returned a barcode after looping over more than one batch.
C9_Witness ==
  /\ pc = "idle"
  /\ result.kind = "ok"
  /\ Len(returned) = 1
  /\ Len(consumed) >= 2

(***************************************************************************)
(* C10. An event whose value is not 1 (a release, a repeat) pushes nothing *)
(* on the buffer, whatever its key, enter included.                        *)
(***************************************************************************)
C10_OnlyPressesPush ==
  [][(pc = "events" /\ events # << >> /\ Head(events).value # 1) =>
       buffer' = buffer]_vars

\* A repeat or a release of enter has been processed, and the scan after its
\* batch has found no terminator.
C10_Witness ==
  /\ pc = "again"
  /\ \E i \in 1..Len(Flatten(consumed)) :
       /\ Flatten(consumed)[i].type = "KEY"
       /\ Flatten(consumed)[i].code = "KEY_ENTER"
       /\ Flatten(consumed)[i].value # 1

(***************************************************************************)
(* The key mapper over its whole table: every key pressed alone and under  *)
(* each modifier, then enter.                                              *)
(***************************************************************************)
DigitKeys ==
  <<"KEY_1", "KEY_2", "KEY_3", "KEY_4", "KEY_5", "KEY_6", "KEY_7", "KEY_8",
    "KEY_9", "KEY_0">>

LetterKeys ==
  <<"KEY_A", "KEY_B", "KEY_C", "KEY_D", "KEY_E", "KEY_F", "KEY_G", "KEY_H",
    "KEY_I", "KEY_J", "KEY_K", "KEY_L", "KEY_M", "KEY_N", "KEY_O", "KEY_P",
    "KEY_Q", "KEY_R", "KEY_S", "KEY_T", "KEY_U", "KEY_V", "KEY_W", "KEY_X",
    "KEY_Y", "KEY_Z">>

SpecialKeys ==
  {"KEY_SPACE", "KEY_TAB", "KEY_APOSTROPHE", "KEY_EQUAL", "KEY_COMMA",
   "KEY_MINUS", "KEY_DOT", "KEY_SLASH", "KEY_BACKSLASH", "KEY_SEMICOLON",
   "KEY_LEFTBRACE", "KEY_RIGHTBRACE", "KEY_GRAVE"}

EnterKeys == {"KEY_ENTER", "KEY_KPENTER"}

ModifierKeys == {"KEY_LEFTSHIFT", "KEY_RIGHTSHIFT", "KEY_CAPSLOCK"}

\* Keys of no arm of key_to_str: the modifiers and some other keys.
UnmappedKeys ==
  ModifierKeys \cup {"KEY_ESC", "KEY_BACKSPACE", "KEY_LEFTCTRL", "KEY_F1",
                     "KEY_KP1", "KEY_RESERVED"}

Range(f) == {f[i] : i \in DOMAIN f}

AllKeys ==
  Range(DigitKeys) \cup Range(LetterKeys) \cup SpecialKeys \cup EnterKeys
    \cup UnmappedKeys

\* A shift key held, repeating, over a letter.
ScanRepeatShift ==
  <<Press("KEY_LEFTSHIFT"), Repeat("KEY_LEFTSHIFT"), Press("KEY_A"),
    Press("KEY_ENTER")>>

\* Caps lock held, repeating, over a digit.
ScanRepeatCaps ==
  <<Press("KEY_CAPSLOCK"), Repeat("KEY_CAPSLOCK"), Press("KEY_1"),
    Press("KEY_KPENTER")>>

KeyStreams ==
  {<<Press(k), Press("KEY_ENTER")>> : k \in AllKeys}
    \cup {<<Press(m), Press(k), Press("KEY_ENTER")>> :
            m \in ModifierKeys, k \in AllKeys}
    \cup {<<Press(m), Release(m), Press(k), Press("KEY_KPENTER")>> :
            m \in ModifierKeys, k \in {"KEY_A", "KEY_1", "KEY_ENTER"}}
    \cup {ScanRepeatShift, ScanRepeatCaps}

KeyInit == device \in KeyStreams /\ Constructed /\ NoStream

KeySpec == KeyInit /\ [][Next]_vars

\* The event the for loop runs on in this step.
PressedKey == Head(events).code

\* A step of the for loop on a press of a key.
KeyPressStep ==
  /\ pc = "events"
  /\ events # << >>
  /\ Head(events).type = "KEY"
  /\ Head(events).value = 1

(***************************************************************************)
(* C11. A press of enter or of keypad enter pushes a newline, whether the  *)
(* capital flag is false or true, and no other event pushes a newline.     *)
(***************************************************************************)
C11_NewlineIffEnterPress ==
  [][(pc = "events" /\ events # << >>) =>
       IF IsEnterPress(Head(events))
         THEN buffer' = Append(buffer, Newline)
         ELSE NewlineCount(buffer') = NewlineCount(buffer)]_vars

\* Keypad enter has been pressed under a modifier and has pushed a newline.
C11_Witness ==
  /\ pc = "events"
  /\ effective_capital(mods)
  /\ consumed # << >>
  /\ consumed[Len(consumed)] # << >>
  /\ consumed[Len(consumed)][Len(consumed[Len(consumed)])]
       = Press("KEY_KPENTER")
  /\ buffer = <<Newline>>

(***************************************************************************)
(* C12. A press of a digit key pushes the digit when the capital flag is   *)
(* false and the symbol of "!@#$%^&*()" (for 1..9, 0) when it is true; a   *)
(* press of a letter key pushes the lower-case letter when the flag is     *)
(* false and the upper-case letter when it is true.                        *)
(***************************************************************************)
Digits == <<"1", "2", "3", "4", "5", "6", "7", "8", "9", "0">>

DigitSymbols == <<"!", "@", "#", "$", "%", "^", "&", "*", "(", ")">>

LowerCase ==
  <<"a", "b", "c", "d", "e", "f", "g", "h", "i", "j", "k", "l", "m", "n",
    "o", "p", "q", "r", "s", "t", "u", "v", "w", "x", "y", "z">>

UpperCase ==
  <<"A", "B", "C", "D", "E", "F", "G", "H", "I", "J", "K", "L", "M", "N",
    "O", "P", "Q", "R", "S", "T", "U", "V", "W", "X", "Y", "Z">>

C13_UnmappedKeysAreSkipped ==
  [][/\ (KeyPressStep /\ PressedKey \in UnmappedKeys) =>
          (buffer' = buffer /\ result' = result /\ pc' = "events")
     /\ (result'.kind = "err" /\ result.kind # "err") =>
          pc \in {"fetch", "again"}]_vars

\* Presses of keys without a mapping only, among them a key that is no
\* modifier, have been processed, and read() waits for the next batch.
C13_Witness ==
  /\ pc = "again"
  /\ buffer = << >>
  /\ result = NoResult
  /\ \E i \in 1..Len(Flatten(consumed)) :
       Flatten(consumed)[i] = Press("KEY_ESC")

(***************************************************************************)
(* C15. The flag handed to the key mapper for a key press is               *)
(* left_shift OR right_shift OR caps_lock, each the value of the last      *)
(* press (true) or release (false) of its own key among the events         *)
(* consumed so far.                                                        *)
(***************************************************************************)
\* Whether the last press or release of `key` in `history` is a press.
Held(key, history) ==
  LET on == {i \in 1..Len(history) :
               /\ history[i].type = "KEY"
               /\ history[i].code = key
               /\ history[i].value \in {0, 1}}
  IN  /\ on # {}
      /\ history[CHOOSE i \in on : \A j \in on : j <= i].value = 1

HeldFlag(history) ==
  \/ Held("KEY_LEFTSHIFT", history)
  \/ Held("KEY_RIGHTSHIFT", history)
  \/ Held("KEY_CAPSLOCK", history)

C15_FlagFollowsPressAndRelease ==
  [][KeyPressStep =>
       buffer' = buffer \o key_to_str(PressedKey,
                                      HeldFlag(Flatten(consumed')))]_vars

(***************************************************************************)
(* C16. An event on a shift or caps-lock key whose value is neither 1 nor  *)
(* 0 (a key repeat) leaves the modifier state unchanged.                   *)
(***************************************************************************)
C16_RepeatKeepsModifier ==
  [][(/\ pc = "events"
      /\ events # << >>
      /\ Head(events).type = "KEY"
      /\ Head(events).code \in ModifierKeys
      /\ Head(events).value \notin {0, 1}) =>
       mods' = mods]_vars

(***************************************************************************)
(* C17. The k-th barcode returned is the text between the (k-1)-th and the *)
(* k-th newline pushed, the empty text if the two are adjacent or the k-th *)
(* newline is the first character: an empty barcode is returned as "",     *)
(* neither skipped nor merged with the next.                               *)
(***************************************************************************)
\* The position in s of its k-th newline, 0 for k = 0.
NewlineAt(s, k) ==
  IF k = 0 THEN 0
  ELSE CHOOSE i \in 1..Len(s) :
         /\ s[i] = Newline
         /\ Cardinality({j \in 1..i : s[j] = Newline}) = k

C17_EmptyBarcodesAreReturned ==
  LET p == PushedBy(consumed)
  IN  /\ Len(returned) <= NewlineCount(p)
      /\ \A k \in 1..Len(returned) :
           returned[k] = SubSeq(p, NewlineAt(p, k - 1) + 1, NewlineAt(p, k) - 1)

\* Two enter presses in a row have been consumed and the second barcode
\* returned is empty.
C17_Witness ==
  /\ Len(returned) = 2
  /\ returned[2] = << >>
  /\ \E i \in 1..(Len(Flatten(consumed)) - 1) :
       /\ IsEnterPress(Flatten(consumed)[i])
       /\ IsEnterPress(Flatten(consumed)[i + 1])

(***************************************************************************)
(* open and open_by_physical_path.                                         *)
(***************************************************************************)
\* open that returns the scanner whether or not the grab succeeded.
OpenIgnoresGrab ==
  /\ opened = "none"
  /\ \E open_ok \in BOOLEAN, grab_ok \in BOOLEAN :
       IF ~open_ok
         THEN opened' = "open_error" /\ grabbed' = grabbed
         ELSE opened' = "scanner" /\ grabbed' = grab_ok
  /\ UNCHANGED <<device, pc, events, mods, buffer, result, consumed, returned,
                 errBuffer, worker, channel, received, rx, completed>>

\* open(path): Device::open, then grab; either failure is returned as the
\* error, and there is no scanner.
Open ==
  /\ opened = "none"
  /\ \E open_ok \in BOOLEAN, grab_ok \in BOOLEAN :
       IF ~open_ok
         THEN opened' = "open_error" /\ grabbed' = grabbed
         ELSE IF ~grab_ok
                THEN opened' = "grab_error" /\ grabbed' = grabbed
                ELSE opened' = "scanner" /\ grabbed' = TRUE
  /\ UNCHANGED <<device, pc, events, mods, buffer, result, consumed, returned,
                 errBuffer, worker, channel, received, rx, completed>>

\* open_by_physical_path: the first enumerated device with the physical
\* path is grabbed; Ok(None) if there is none.
OpenByPhysicalPath ==
  /\ opened = "none"
  /\ \E found \in BOOLEAN, grab_ok \in BOOLEAN :
       IF ~found
         THEN opened' = "no_device" /\ grabbed' = grabbed
         ELSE IF ~grab_ok
                THEN opened' = "grab_error" /\ grabbed' = grabbed
                ELSE opened' = "scanner" /\ grabbed' = TRUE
  /\ UNCHANGED <<device, pc, events, mods, buffer, result, consumed, returned,
                 errBuffer, worker, channel, received, rx, completed>>

\* A letter and the terminator.
PlainAlphabet == {Press("KEY_A"), Press("KEY_ENTER")}

OpenStreams == SeqsUpTo(PlainAlphabet, MaxEvents) \cup {ScanHi, ScanXY}

\* Before open is called: no scanner, the device not grabbed.
OpenInit ==
  /\ device \in OpenStreams
  /\ pc = "idle"
  /\ events = << >>
  /\ mods = NoModifiers
  /\ buffer = << >>
  /\ result = NoResult
  /\ consumed = << >>
  /\ returned = << >>
  /\ errBuffer = << >>
  /\ opened = "none"
  /\ grabbed = FALSE
  /\ NoStream

OpenNext ==
  Open \/ OpenByPhysicalPath \/ Call \/ FetchOk \/ FetchErr \/ ProcessEvent
    \/ Scan

OpenSpec == OpenInit /\ [][OpenNext]_vars

(***************************************************************************)
(* C14. There is a scanner only if the grab of its device has succeeded;   *)
(* when the grab fails the open call returns the error and no scanner;     *)
(* read() runs only on a scanner and changes neither the grab nor what     *)
(* open returned: only the open call itself does.                          *)
(***************************************************************************)
C14_ScannerOnlyIfGrabbed ==
  [][/\ opened' = "scanner" => grabbed'
     /\ opened' \in {"open_error", "grab_error", "no_device"} =>
          (~grabbed' /\ pc' = "idle" /\ consumed' = << >>)
     /\ pc' # "idle" => opened' = "scanner"
     /\ (grabbed' # grabbed \/ opened' # opened) =>
          (opened = "none" /\ pc = "idle" /\ UNCHANGED <<pc, result, buffer>>)]_vars

\* A scanner has been opened, on a grabbed device, and has read a barcode.
C14_Witness ==
  /\ opened = "scanner"
  /\ grabbed
  /\ pc = "idle"
  /\ result.kind = "ok"

(***************************************************************************)
(* into_async_stream: the scanner is moved into a blocking worker that     *)
(* loops over tx.send(self.read()); the caller keeps the receiver.         *)
(***************************************************************************)
\* into_async_stream(self): the channel is created, the worker spawned with
\* the scanner and the sender, the receiver returned.
IntoAsyncStream ==
  /\ opened = "scanner"
  /\ worker = "none"
  /\ pc = "idle"
  /\ worker' = "running"
  /\ rx' = "alive"
  /\ channel' = << >>
  /\ received' = << >>
  /\ completed' = << >>
  /\ result' = NoResult
  /\ UNCHANGED <<device, pc, events, mods, buffer, consumed, returned,
                 errBuffer, opened, grabbed>>

\* A worker whose loop also ends when read() returned an error.
SendStopsOnError ==
  /\ worker = "running"
  /\ pc = "idle"
  /\ result # NoResult
  /\ IF rx = "alive" /\ result.kind = "ok"
       THEN /\ channel' = Append(channel, result)
            /\ worker' = worker
       ELSE /\ worker' = "stopped"
            /\ channel' = channel
  /\ result' = NoResult
  /\ errBuffer' = IF result.kind = "ok" THEN << >> ELSE errBuffer
  /\ UNCHANGED <<device, pc, events, mods, buffer, consumed, returned,
                 opened, grabbed, received, rx, completed>>

\* tx.send(self.read()) once read() has returned: the result is put on the
\* channel, or, the receiver gone, the send fails and the loop breaks.
Send ==
  /\ worker = "running"
  /\ pc = "idle"
  /\ result # NoResult
  /\ IF rx = "alive"
       THEN /\ channel' = Append(channel, result)
            /\ worker' = worker
       ELSE /\ worker' = "stopped"
            /\ channel' = channel
  /\ result' = NoResult
  /\ errBuffer' = IF result.kind = "ok" THEN << >> ELSE errBuffer
  /\ UNCHANGED <<device, pc, events, mods, buffer, consumed, returned,
                 opened, grabbed, received, rx, completed>>

\* The holder of the receiver takes the next item off the channel.
Recv ==
  /\ rx = "alive"
  /\ channel # << >>
  /\ received' = Append(received, Head(channel))
  /\ channel' = Tail(channel)
  /\ UNCHANGED <<device, pc, events, mods, buffer, result, consumed,
                 returned, errBuffer, opened, grabbed, worker, rx, completed>>

\* The holder of the receiver drops it: the channel is closed and the items
\* still on it are dropped with it.
DropRx ==
  /\ rx = "alive"
  /\ rx' = "dropped"
  /\ channel' = << >>
  /\ UNCHANGED <<device, pc, events, mods, buffer, result, consumed,
                 returned, errBuffer, opened, grabbed, worker, received,
                 completed>>

StreamStreams == SeqsUpTo(PlainAlphabet, MaxEvents) \cup {ScanHi, ScanXY}

StreamInit ==
  /\ device \in StreamStreams
  /\ Constructed
  /\ NoStream

StreamNext ==
  \/ IntoAsyncStream
  \/ Call
  \/ FetchOk
  \/ FetchErr
  \/ ProcessEvent
  \/ Scan
  \/ Send
  \/ Recv
  \/ DropRx

StreamSpec == StreamInit /\ [][StreamNext]_vars

\* The result the worker's read() has returned and the worker has yet to
\* send.
Pending ==
  IF worker = "running" /\ pc = "idle" /\ result # NoResult
    THEN <<result>>
    ELSE << >>

\* C18: in into_async_stream one worker owns the scanner and sends the result
\* of each read(), barcode or error: what the receiver has obtained is a
\* prefix of the results of the worker's read() calls in the order the calls
\* returned; while the receiver lives, what it has obtained, what is on the
\* channel and the result still to be sent are exactly those results, each
\* once and in order; and a read() is in progress only in the running worker
\* and only with no result still to be sent, so no other party calls read().
C18_ReceiverGetsEachResultOnce ==
  /\ worker # "none" => IsPrefix(received, completed)
  /\ rx = "alive" => received \o channel \o Pending = completed
  /\ (worker # "none" /\ pc # "idle") => worker = "running"
  /\ (worker = "running" /\ rx = "alive" /\ pc # "idle") =>
       received \o channel = completed

\* The receiver has obtained a barcode, an error and a barcode, in the order
\* the worker's reads returned them, and the worker runs on.
C18_Witness ==
  /\ worker = "running"
  /\ rx = "alive"
  /\ Len(received) = 3
  /\ received[1].kind = "ok"
  /\ received[2].kind = "err"
  /\ received[3].kind = "ok"
  /\ received = completed

\* C19: the worker stops only at a send that fails because the receiver has
\* been dropped, and only once its read() has returned; an error result
\* with the receiver alive is sent as one item, the worker runs on and
\* read() can be called again; a failed fetch of the worker leaves one error
\* to be sent; and only a send puts an item on the channel, one at a time.
C19_WorkerStopsOnlyOnFailedSend ==
  [][/\ (worker = "running" /\ worker' # "running") =>
          /\ worker' = "stopped"
          /\ rx = "dropped"
          /\ pc = "idle"
          /\ result # NoResult
     /\ (worker = "running" /\ pc # "idle" /\ result'.kind = "err") =>
          /\ pc' = "idle"
          /\ worker' = "running"
          /\ completed' = Append(completed, Err)
          /\ channel' = channel
     /\ (Pending = <<Err>> /\ rx = "alive" /\ result' # result) =>
          /\ channel' = Append(channel, Err)
          /\ worker' = "running"
          /\ pc' = "idle"
          /\ result' = NoResult
     /\ (worker = "running" /\ pc = "idle" /\ result = NoResult) =>
          ENABLED Call
     /\ (Pending = <<Err>> /\ result' = result /\ rx' = rx) =>
          (channel' = channel \/ channel' = Tail(channel))
     /\ Len(channel') > Len(channel) =>
          /\ Pending # << >>
          /\ channel' = Append(channel, result)]_vars

\* The device has failed twice under the worker: both errors were sent and
\* have been received, and the worker is in its next read().
C19_Witness ==
  /\ worker = "running"
  /\ rx = "alive"
  /\ pc = "fetch"
  /\ ErrItems(received) = 2
  /\ ErrItems(completed) = 2

=============================================================================
